---- MODULE Spec2Model ----
(***************************************************************************)
(* Model of download-logos-simple.py: the filename sanitizer, the          *)
(* extension resolver, the fetcher (download_file) and the orchestrator    *)
(* (main).                                                                 *)
(*                                                                         *)
(* Python strings are sequences of one-character strings, so that the      *)
(* character-level functions (re.sub, urlparse, os.path.splitext,          *)
(* str.lower) are computed character by character as the code does.        *)
(***************************************************************************)
EXTENDS Integers, Sequences, FiniteSets, TLC

VARIABLES
    token_list,   \* the records read from token-list.json (line 13)
    disk,         \* ./token-logo: file name -> content, for the files that exist
    startDisk,    \* the directory as it was when this run of the program started
    callDisk,     \* the directory as it was when download_file was last called
    run,          \* how many times the program has been started
    pc,           \* position of the process
    idx,          \* number of records the loop of main has finished
    downloaded,   \* main's counters (lines 107-109)
    skipped,
    failed,
    pauses,       \* time.sleep(0.3) calls of this run (line 124)
    url,          \* download_file's parameters and locals
    filename,
    filepath,
    i,            \* index of the current attempt, 0-based as in the code
    response,     \* the open response of the current attempt, or NoResponse
    result,       \* download_file's return value, "none" before it returns
    requests,     \* the User-Agent of each GET request of the current download_file call
    waits,        \* time.sleep(0.5) calls of the current download_file call
    diag,         \* failure diagnostics printed by the current call
    exc,          \* the uncaught exception that ended the process, or "none"
    arg,          \* pure-function harness: the input string
    ret,          \* pure-function harness: the returned string
    stage         \* pure-function harness: position

mainVars == <<token_list, disk, startDisk, callDisk, run, pc, idx, downloaded, skipped, failed,
              pauses, url, filename, filepath, i, response, result, requests,
              waits, diag>>
pureVars == <<arg, ret, stage>>
vars == <<mainVars, exc, pureVars>>

----------------------------------------------------------------------------
(* Bounds of the model *)

MaxLen == 2       \* longest string given to sanitize_filename on its own
MaxPieces == 2    \* URL pieces appended to a prefix for get_extension_from_url
MaxRecords == 2   \* longest token list
MaxRuns == 2      \* times the program is started on the same directory

----------------------------------------------------------------------------
(* Characters *)

\* The printable ASCII characters in code-point order: Ascii[k] has code 31 + k.
\* The double quote, the backslash and the backtick are written as tokens.
Ascii ==
    <<" ", "!", "U+0022", "#", "$", "%", "&", "'", "(", ")", "*", "+", ",", "-",
      ".", "/", "0", "1", "2", "3", "4", "5", "6", "7", "8", "9", ":", ";",
      "<", "=", ">", "?", "@", "A", "B", "C", "D", "E", "F", "G", "H", "I",
      "J", "K", "L", "M", "N", "O", "P", "Q", "R", "S", "T", "U", "V", "W",
      "X", "Y", "Z", "[", "U+005C", "]", "^", "_", "U+0060", "a", "b", "c", "d", "e",
      "f", "g", "h", "i", "j", "k", "l", "m", "n", "o", "p", "q", "r", "s",
      "t", "u", "v", "w", "x", "y", "z", "{", "|", "}", "~">>

\* One character outside ASCII (e with acute accent), written as a token.
EAcute == "U+00E9"

\* The code point of every character above
CodePoint ==
    [c \in {Ascii[k] : k \in 1..Len(Ascii)} \cup {EAcute} |->
        IF c = EAcute THEN 233
        ELSE 31 + (CHOOSE k \in 1..Len(Ascii) : Ascii[k] = c)]

\* ord(c)
Ord(c) == CodePoint[c]

\* chr(n) for a printable ASCII code
Chr(n) == Ascii[n - 31]

\* A regex character range lo-hi matches by code point.
InRange(c, lo, hi) == Ord(lo) <= Ord(c) /\ Ord(c) <= Ord(hi)

\* str.lower() on one character (ASCII letters; EAcute is already lower case)
LowerChar(c) == IF c # EAcute /\ InRange(c, "A", "Z") THEN Chr(Ord(c) + 32) ELSE c

\* str.lower()
Lower(s) == [k \in 1..Len(s) |-> LowerChar(s[k])]

\* All sequences over S of length at most n
RECURSIVE SeqsUpTo(_, _)
SeqsUpTo(S, n) ==
    IF n = 0 THEN {<<>>}
    ELSE LET shorter == SeqsUpTo(S, n - 1)
         IN  shorter \cup {Append(s, c) : s \in shorter, c \in S}

\* s[a..b] with the clipping of a Python slice (1-based, inclusive; empty when a > b)
Slice(s, a, b) == SubSeq(s, a, b)

\* str.find(c, start): least index >= start holding c, 0 when there is none
Find(s, c, start) ==
    IF \E k \in start..Len(s) : s[k] = c
    THEN CHOOSE k \in start..Len(s) : s[k] = c /\ \A j \in start..(k - 1) : s[j] # c
    ELSE 0

\* str.rfind(c): greatest index holding c, 0 when there is none
RFind(s, c) ==
    IF \E k \in 1..Len(s) : s[k] = c
    THEN CHOOSE k \in 1..Len(s) : s[k] = c /\ \A j \in (k + 1)..Len(s) : s[j] # c
    ELSE 0

\* c in s
Has(s, c) == \E k \in 1..Len(s) : s[k] = c

----------------------------------------------------------------------------
(* sanitize_filename, lines 19-21 *)

\* The character class [a-zA-Z0-9\-_.] whose complement the regex matches.
SafeChar(c) ==
    /\ c # EAcute
    /\ \/ InRange(c, "a", "z")
       \/ InRange(c, "A", "Z")
       \/ InRange(c, "0", "9")
       \/ c \in {"-", "_", "."}

\* A sanitizer that deletes the unsafe characters instead of replacing them.
sanitize_filename_dropping(name) == SelectSeq(name, SafeChar)

\* re.sub(r'[^a-zA-Z0-9\-_.]', '_', filename): every match, one character
\* long, is replaced by '_'.
sanitize_filename(name) ==
    [k \in 1..Len(name) |-> IF SafeChar(name[k]) THEN name[k] ELSE "_"]

----------------------------------------------------------------------------
(* get_extension_from_url, lines 23-35 *)

\* urllib.parse.scheme_chars
SchemeChar(c) ==
    /\ c # EAcute
    /\ \/ InRange(c, "a", "z")
       \/ InRange(c, "A", "Z")
       \/ InRange(c, "0", "9")
       \/ c \in {"+", "-", "."}

\* urlsplit's scheme test: a ':' after a non-empty run of scheme characters
\* that starts with a letter. The index of that ':', or 0.
SchemeEnd(u) ==
    LET c == Find(u, ":", 1)
    IN  IF /\ c > 1
           /\ u[1] # EAcute
           /\ (InRange(u[1], "a", "z") \/ InRange(u[1], "A", "Z"))
           /\ \A k \in 1..(c - 1) : SchemeChar(u[k])
        THEN c ELSE 0

\* urllib.parse.uses_params
uses_params ==
    { <<>>,
      <<"f","t","p">>, <<"h","d","l">>,
      <<"p","r","o","s","p","e","r","o">>,
      <<"h","t","t","p">>, <<"i","m","a","p">>,
      <<"h","t","t","p","s">>, <<"s","h","t","t","p">>,
      <<"r","t","s","p">>, <<"r","t","s","p","u">>,
      <<"s","i","p">>, <<"s","i","p","s">>, <<"m","m","s">>,
      <<"s","f","t","p">>, <<"t","e","l">> }

\* urlsplit: the scheme, lower-cased ('' when there is none)
SchemeOf(u) == Lower(Slice(u, 1, SchemeEnd(u) - 1))

\* urlsplit: what follows the scheme and its ':'
AfterScheme(u) == Slice(u, SchemeEnd(u) + 1, Len(u))

\* urlsplit: url[:2] == '//'
HasNetloc(r) == Len(r) >= 2 /\ r[1] = "/" /\ r[2] = "/"

\* _splitnetloc: the netloc ends before the first of '/', '?', '#' after the
\* '//', or with the string
NetlocEnd(r) ==
    LET delims == {Find(r, d, 3) : d \in {"/", "?", "#"}} \ {0}
    IN  IF delims = {} THEN Len(r) + 1
        ELSE CHOOSE d \in delims : \A e \in delims : d <= e

NetlocOf(r) == IF HasNetloc(r) THEN Slice(r, 3, NetlocEnd(r) - 1) ELSE <<>>

AfterNetloc(r) == IF HasNetloc(r) THEN Slice(r, NetlocEnd(r), Len(r)) ELSE r

\* s.split(c, 1)[0]: what stands before the first c, or all of s
Before(s, c) ==
    LET k == Find(s, c, 1)
    IN  IF k > 0 THEN Slice(s, 1, k - 1) ELSE s

\* _splitparams(url)[0]: the path without the ';parameters' of its last segment
WithoutParams(p) ==
    LET semi == IF Has(p, "/") THEN Find(p, ";", RFind(p, "/"))
                ELSE Find(p, ";", 1)
    IN  IF semi > 0 THEN Slice(p, 1, semi - 1) ELSE p

\* urlsplit's path: the fragment after '#' goes first, then the query after '?'
SplitPath(r) == Before(Before(AfterNetloc(r), "#"), "?")

\* The parts urlparse returns, and whether it raises: urlsplit raises
\* ValueError("Invalid IPv6 URL") for a netloc with an unmatched square
\* bracket; urlparse takes the parameters off the last path segment for the
\* schemes of uses_params.
UrlParts(scheme, netloc, p) ==
    [ raised |-> Has(netloc, "[") # Has(netloc, "]"),
      scheme |-> scheme,
      netloc |-> netloc,
      path   |-> IF scheme \in uses_params THEN WithoutParams(p) ELSE p ]

UrlAfterScheme(scheme, r) == UrlParts(scheme, NetlocOf(r), SplitPath(r))

\* urlparse(url), as far as the path is concerned: urlsplit takes off the
\* scheme, the netloc after '//', the fragment and the query.
urlparse(u) == UrlAfterScheme(SchemeOf(u), AfterScheme(u))

\* os.path.splitext(p)[1]: from the last dot of the last segment, provided a
\* character other than '.' stands before that dot in the segment.
splitext_ext(p) ==
    LET sepIndex == RFind(p, "/")
        dotIndex == RFind(p, ".")
    IN  IF /\ dotIndex > sepIndex
           /\ \E k \in (sepIndex + 1)..(dotIndex - 1) : p[k] # "."
        THEN Slice(p, dotIndex, Len(p))
        ELSE <<>>

\* The list of line 32
KnownExtensions ==
    { <<".","p","n","g">>, <<".","j","p","g">>, <<".","j","p","e","g">>,
      <<".","s","v","g">>, <<".","w","e","b","p">>, <<".","g","i","f">> }

PNG == <<".","p","n","g">>

\* Whether get_extension_from_url(url) raises (line 25, urlparse)
get_extension_raises(u) == urlparse(u).raised

\* get_extension_from_url(url) when urlparse returns
get_extension_from_url(u) ==
    LET ext == splitext_ext(urlparse(u).path)
    IN  IF ext = <<>> THEN PNG
        ELSE IF Lower(ext) \notin KnownExtensions THEN PNG
        ELSE ext

----------------------------------------------------------------------------
(* The two pure functions on their own: each is applied to every string of  *)
(* a bounded set.                                                           *)

\* concatenation of a sequence of strings
RECURSIVE Concat(_)
Concat(ss) == IF ss = <<>> THEN <<>> ELSE Head(ss) \o Concat(Tail(ss))

\* Characters given to the sanitizer: members of the class, the characters
\* next to the ends of its ranges in code-point order, and others.
SanAlphabet ==
    {"a", "z", "A", "Z", "0", "9", "-", "_", ".",
     " ", "/", ":", "@", "[", "U+0060", "{", "$", EAcute}

SanInputs == SeqsUpTo(SanAlphabet, MaxLen)

\* URLs given to the resolver: a prefix followed by up to MaxPieces pieces.
UrlPrefixes ==
    { <<>>,
      <<"h","t","t","p",":","/","/","h">>,
      <<"x",":">>,
      <<"/","/","h","]">>,
      <<"h","t","t","p",":","/","/","[","h">> }

UrlPieces ==
    { <<"/">>, <<"a">>, <<".">>, <<";">>, <<"?">>, <<"#">>,
      <<".","S","V","G">>, <<".","J","p","e","g">>, <<".","e","x","e">> }

ExtInputs ==
    {p \o Concat(ps) : p \in UrlPrefixes, ps \in SeqsUpTo(UrlPieces, MaxPieces)}

\* The program is not running.
MainIdle ==
    /\ token_list = <<>>
    /\ disk = <<>>
    /\ startDisk = <<>>
    /\ callDisk = <<>>
    /\ run = 0
    /\ pc = "idle"
    /\ idx = 0
    /\ downloaded = 0
    /\ skipped = 0
    /\ failed = 0
    /\ pauses = 0
    /\ url = <<>>
    /\ filename = <<>>
    /\ filepath = <<>>
    /\ i = 0
    /\ response = [status |-> 0, body |-> [kind |-> "empty", from |-> <<>>, attempt |-> 0]]
    /\ result = "none"
    /\ requests = <<>>
    /\ waits = 0
    /\ diag = <<>>

InitSan ==
    /\ MainIdle
    /\ exc = "none"
    /\ arg \in SanInputs
    /\ ret = <<>>
    /\ stage = "san0"

\* ret = sanitize_filename(arg)
SanitizeCall ==
    /\ stage = "san0"
    /\ ret' = sanitize_filename(arg)
    /\ stage' = "san1"
    /\ UNCHANGED <<mainVars, exc, arg>>

\* the sanitizer applied to its own result
SanitizeAgain ==
    /\ stage = "san1"
    /\ arg' = ret
    /\ ret' = sanitize_filename(ret)
    /\ stage' = "san2"
    /\ UNCHANGED <<mainVars, exc>>

NextSan == SanitizeCall \/ SanitizeAgain

SpecSan == InitSan /\ [][NextSan]_vars

InitExt ==
    /\ MainIdle
    /\ exc = "none"
    /\ arg \in ExtInputs
    /\ ret = <<>>
    /\ stage = "ext0"

\* ret = get_extension_from_url(arg), or the ValueError of urlparse
ExtensionCall ==
    /\ stage = "ext0"
    /\ IF get_extension_raises(arg)
       THEN /\ exc' = "ValueError"
            /\ stage' = "raised"
            /\ UNCHANGED ret
       ELSE /\ ret' = get_extension_from_url(arg)
            /\ stage' = "ext1"
            /\ UNCHANGED exc
    /\ UNCHANGED <<mainVars, arg>>

NextExt == ExtensionCall

SpecExt == InitExt /\ [][NextExt]_vars

----------------------------------------------------------------------------
(* The environment: the token list, the directory and the remote servers    *)

Str_http == <<"h","t","t","p",":","/","/">>

\* logoUrl values. The host names the server's behaviour (see Server).
GoodUrl      == Str_http \o <<"g","/","a",".","p","n","g">>
GoodSvgUrl   == Str_http \o <<"g","/","m",".","S","V","G">>
BadUrl       == Str_http \o <<"b","/","c",".","p","n","g">>
AnyUrl       == Str_http \o <<"x","/","l",".","S","V","G">>
MalformedUrl == Str_http \o <<"[","x","/","a",".","p","n","g">>

\* A record of token-list.json: symbol, and logoUrl when the key is present.
Rec(sym, has, u) == [symbol |-> sym, hasUrl |-> has, logoUrl |-> u]

Records ==
    { Rec(<<"A","A","A">>, TRUE, GoodUrl),
      Rec(<<"B","B","B">>, TRUE, <<>>),
      Rec(<<"B","B","B">>, FALSE, <<>>),
      Rec(<<"C","C","C">>, TRUE, BadUrl),
      Rec(<<"A","/","B">>, TRUE, AnyUrl),
      Rec(<<"A","_","B">>, TRUE, GoodSvgUrl),
      Rec(<<"D">>, TRUE, MalformedUrl) }

TokenLists == SeqsUpTo(Records, MaxRecords)

\* The directory: a function from the names of the files in it to their content.
EmptyDisk == <<>>

\* The content of a file: the body of the response to the n-th request of a
\* fetch of URL u (every response carries bytes of its own), the bytes of a
\* file of an earlier time, or nothing.
Content(kind, u, n) == [kind |-> kind, from |-> u, attempt |-> n]

Body(u, n) == Content("body", u, n)

OldContent == Content("old", <<>>, 0)

\* Content of a file that open(..., 'wb') has created or truncated and
\* nothing has been written to.
EmptyContent == Content("empty", <<>>, 0)

\* A write that leaves the written file alone in the directory.
WriteFile_alone(d, path, content) == [p \in {path} |-> content]

\* open(path, 'wb') / f.write(content): the directory with the file's content set
WriteFile(d, path, content) ==
    [p \in DOMAIN d \cup {path} |-> IF p = path THEN content ELSE d[p]]

\* Directories the program may find at its first start: empty, or holding a
\* file AAA.png of an earlier time.
InitialDisks ==
    { EmptyDisk,
      WriteFile(EmptyDisk, <<"A","A","A",".","p","n","g">>, OldContent) }

\* How the server of a URL behaves: host g answers every request with 200 and
\* a body that is read in full; no attempt on host b ever completes; any
\* other host may do either.
Server(u) ==
    LET host == urlparse(u).netloc
    IN  IF host = <<"g">> THEN "good"
        ELSE IF host = <<"b">> THEN "bad"
        ELSE "any"

\* No response is open.
NoResponse == [status |-> 0, body |-> EmptyContent]

----------------------------------------------------------------------------
(* download_file, lines 37-102 *)

\* A list that lacks its last entry.
user_agents_without_wget ==
    << "Mozilla/5.0 (Macintosh; Intel Mac OS X 10_15_7) AppleWebKit/537.36 (KHTML, like Gecko) Chrome/120.0.0.0 Safari/537.36",
       "Mozilla/5.0 (Windows NT 10.0; Win64; x64) AppleWebKit/537.36 (KHTML, like Gecko) Chrome/120.0.0.0 Safari/537.36",
       "curl/7.68.0" >>

\* The list of lines 55-60
user_agents ==
    << "Mozilla/5.0 (Macintosh; Intel Mac OS X 10_15_7) AppleWebKit/537.36 (KHTML, like Gecko) Chrome/120.0.0.0 Safari/537.36",
       "Mozilla/5.0 (Windows NT 10.0; Win64; x64) AppleWebKit/537.36 (KHTML, like Gecko) Chrome/120.0.0.0 Safari/537.36",
       "curl/7.68.0",
       "wget/1.21.3" >>

\* A download_file without the check of lines 47-50.
Exists_unchecked(d, path) == FALSE

\* A test against the listing of the directory taken when the run started.
Exists_at_start(d, path) == path \in DOMAIN startDisk

\* A test that takes an empty or cut-short file for a missing one.
Exists_complete(d, path) ==
    path \in DOMAIN d /\ d[path].kind \notin {"empty", "partial"}

\* filepath.exists(), line 48
Exists(d, path) == path \in DOMAIN d

\* A test that takes every 2xx status for a success.
IsSuccessStatus_any_2xx(status) == status >= 200 /\ status < 300

\* response.status == 200, line 74
IsSuccessStatus(status) == status = 200

\* A write that does not read the response.
WrittenContent_unread(resp) == EmptyContent

\* What line 76 writes: f.write(response.read())
WrittenContent(resp) == resp.body

\* A short circuit that reports a failure.
AlreadyExistsResult_false == "False"

\* return True, line 50: what download_file returns for a file that exists
AlreadyExistsResult == "True"

\* A test for the key alone: 'logoUrl' in token.
HasLogoUrl_key_present(token) == token.hasUrl

\* token.get('logoUrl') is truthy, line 112
HasLogoUrl(token) == token.hasUrl /\ token.logoUrl # <<>>

\* The record the loop of main is at
Current == token_list[idx + 1]

\* A handler that prints on every attempt.
PrintsDiagnostic_every_attempt(n) == TRUE

\* if i == 0, lines 80, 84, 92, 95: only the first attempt prints
PrintsDiagnostic(n) == n = 0

\* A retry delay after every failed attempt, the last included.
SleepsAfter_every_attempt(n) == TRUE

\* if i < len(user_agents) - 1, line 99: time.sleep(0.5) follows the attempt
SleepsAfter(n) == n < Len(user_agents) - 1

\* The end of a failed attempt: the handler's diagnostic on the first
\* attempt only (lines 80, 84, 92, 95), then time.sleep(0.5) unless this was
\* the last user agent (lines 99-100), then the next entry of the for loop of
\* line 62, or return False (line 102) when the list is exhausted.
AttemptFailed(kind) ==
    /\ diag' = IF PrintsDiagnostic(i) THEN Append(diag, kind) ELSE diag
    /\ response' = NoResponse
    /\ waits' = IF SleepsAfter(i) THEN waits + 1 ELSE waits
    /\ IF i + 1 < Len(user_agents)
       THEN /\ i' = i + 1
            /\ pc' = "attempt"
            /\ UNCHANGED result
       ELSE /\ result' = "False"
            /\ pc' = "ret"
            /\ UNCHANGED i

\* main calls download_file(token['logoUrl'], token['symbol']) for a record
\* with a logo URL (lines 112-115); download_file runs to its first request
\* (lines 39-52): no URL returns False, urlparse may raise, an existing file
\* returns True.
CallDownload ==
    /\ pc = "loop"
    /\ idx < Len(token_list)
    /\ HasLogoUrl(Current)
    /\ url' = Current.logoUrl
    /\ filename' = Current.symbol
    /\ callDisk' = disk
    /\ requests' = <<>>
    /\ waits' = 0
    /\ diag' = <<>>
    /\ i' = 0
    /\ response' = NoResponse
    /\ IF Current.logoUrl = <<>>
       THEN /\ filepath' = <<>>
            /\ result' = "False"
            /\ pc' = "ret"
            /\ UNCHANGED exc
       ELSE IF get_extension_raises(Current.logoUrl)
       THEN /\ filepath' = <<>>
            /\ result' = "none"
            /\ exc' = "ValueError"
            /\ pc' = "crashed"
       ELSE /\ filepath' = sanitize_filename(Current.symbol)
                              \o get_extension_from_url(Current.logoUrl)
            /\ IF Exists(disk, filepath')
               THEN result' = AlreadyExistsResult /\ pc' = "ret"
               ELSE result' = "none" /\ pc' = "attempt"
            /\ UNCHANGED exc
    /\ UNCHANGED <<token_list, disk, startDisk, run, idx, downloaded, skipped,
                   failed, pauses, pureVars>>

\* What urlopen (line 73) may do: return a response (urllib returns the 2xx
\* ones), raise HTTPError with the status as its code, raise URLError, or
\* raise another exception (a timeout while the headers are read, ValueError
\* for a URL of unknown type).
Outcomes ==
    {[kind |-> "response", status |-> st] : st \in {200, 204}}
        \cup {[kind |-> "HTTPError", status |-> st] : st \in {403, 404, 500}}
        \cup {[kind |-> "URLError", status |-> 0],
              [kind |-> "Exception", status |-> 0]}

\* The diagnostic the code prints for a failed attempt (lines 81, 86, 88, 90,
\* 93, 96)
Diagnostic(o) ==
    IF o.kind = "response" THEN "status"
    ELSE IF o.kind = "HTTPError" /\ o.status = 403 THEN "forbidden"
    ELSE IF o.kind = "HTTPError" /\ o.status = 404 THEN "not found"
    ELSE IF o.kind = "HTTPError" THEN "http error"
    ELSE IF o.kind = "URLError" THEN "url error"
    ELSE "unexpected"

\* One request of the loop of line 62 (lines 65-73) and, unless the response
\* has status 200, the rest of the attempt (lines 79-100).
Attempt ==
    /\ pc = "attempt"
    /\ \E o \in Outcomes :
         /\ Server(url) = "good" => (o.kind = "response" /\ o.status = 200)
         /\ requests' = Append(requests, user_agents[i + 1])
         /\ IF o.kind = "response" /\ IsSuccessStatus(o.status)
            THEN /\ response' = [status |-> o.status, body |-> Body(url, i + 1)]
                 /\ pc' = "open"
                 /\ UNCHANGED <<i, waits, diag, result>>
            ELSE AttemptFailed(Diagnostic(o))
    /\ UNCHANGED <<token_list, disk, startDisk, callDisk, run, idx, downloaded,
                   skipped, failed, pauses, url, filename, filepath, exc,
                   pureVars>>

\* open(filepath, 'wb'), line 75: the file is created, or emptied; or open
\* raises OSError, which line 94 catches (an OSError that is no URLError).
OpenFile ==
    /\ pc = "open"
    /\ \/ /\ disk' = WriteFile(disk, filepath, EmptyContent)
          /\ pc' = "read"
          /\ UNCHANGED <<i, waits, diag, result, response>>
       \/ /\ Server(url) # "good"
          /\ AttemptFailed("unexpected")
          /\ UNCHANGED disk
    /\ UNCHANGED <<token_list, startDisk, callDisk, run, idx, downloaded,
                   skipped, failed, pauses, url, filename, filepath, requests,
                   exc, pureVars>>

\* f.write(response.read()), lines 76-78: the body is read and written and
\* download_file returns True; or response.read() raises (a broken
\* connection, a timeout), the with statement closes the file that line 75
\* created, and line 94 catches the exception.
ReadWrite ==
    /\ pc = "read"
    /\ \/ /\ Server(url) # "bad"
          /\ disk' = WriteFile(disk, filepath, WrittenContent(response))
          /\ result' = "True"
          /\ pc' = "ret"
          /\ UNCHANGED <<i, waits, diag, response>>
       \/ /\ Server(url) # "good"
          /\ AttemptFailed("unexpected")
          /\ UNCHANGED disk
    /\ UNCHANGED <<token_list, startDisk, callDisk, run, idx, downloaded,
                   skipped, failed, pauses, url, filename, filepath, requests,
                   exc, pureVars>>

----------------------------------------------------------------------------
(* main, lines 104-137 *)

\* A delay that is taken after fetches only.
PausesAfter_fetches_only(p, outcome) ==
    IF outcome = "skipped" THEN p ELSE p + 1

\* time.sleep(0.3), line 124: after the if/else of lines 112-121, hence the
\* same for every outcome of the record
PausesAfter(p, outcome) == p + 1

\* A count without the else branch of line 117.
CounterFor_success_only(res) ==
    IF res = "True" THEN "downloaded" ELSE "none"

\* The counter that lines 115-118 add 1 to for a call that returned res
CounterFor(res) ==
    IF res = "True" THEN "downloaded" ELSE "failed"

\* download_file has returned: lines 115-118 count the record, line 124
\* sleeps, and the loop goes on.
Tally ==
    /\ pc = "ret"
    /\ downloaded' = IF CounterFor(result) = "downloaded"
                     THEN downloaded + 1 ELSE downloaded
    /\ failed' = IF CounterFor(result) = "failed" THEN failed + 1 ELSE failed
    /\ pauses' = PausesAfter(pauses, CounterFor(result))
    /\ idx' = idx + 1      \* lines 127-128 print the progress, nothing else
    /\ pc' = "loop"
    /\ UNCHANGED <<token_list, disk, startDisk, callDisk, run, skipped, url,
                   filename, filepath, i, response, result, requests, waits,
                   diag, exc, pureVars>>

\* A record without a logo URL: lines 119-124.
SkipNoUrl ==
    /\ pc = "loop"
    /\ idx < Len(token_list)
    /\ ~HasLogoUrl(Current)
    /\ skipped' = skipped + 1
    /\ pauses' = PausesAfter(pauses, "skipped")
    /\ idx' = idx + 1
    /\ UNCHANGED <<token_list, disk, startDisk, callDisk, run, pc, downloaded,
                   failed, url, filename, filepath, i, response, result,
                   requests, waits, diag, exc, pureVars>>

\* The loop is over: the final summary, lines 130-137.
Summary ==
    /\ pc = "loop"
    /\ idx = Len(token_list)
    /\ pc' = "done"
    /\ UNCHANGED <<token_list, disk, startDisk, callDisk, run, idx, downloaded,
                   skipped, failed, pauses, url, filename, filepath, i,
                   response, result, requests, waits, diag, exc, pureVars>>

\* What a write that was cut short leaves of the body of a response: a
\* proper prefix of it.
Partial(resp) == Content("partial", resp.body.from, resp.body.attempt)

\* The process is terminated from outside (a signal, a power cut) while it
\* runs. Its variables are gone with it; the directory stays as it is. When
\* the file is open for writing (lines 75-76) it is left as open() made it,
\* empty, or with the part of the body that had reached it.
Terminate ==
    /\ pc \in {"loop", "attempt", "open", "read", "ret"}
    /\ IF pc = "read"
       THEN disk' \in {disk, WriteFile(disk, filepath, Partial(response))}
       ELSE disk' = disk
    /\ pc' = "killed"
    /\ callDisk' = disk'
    /\ idx' = 0
    /\ downloaded' = 0
    /\ skipped' = 0
    /\ failed' = 0
    /\ pauses' = 0
    /\ url' = <<>>
    /\ filename' = <<>>
    /\ filepath' = <<>>
    /\ i' = 0
    /\ response' = NoResponse
    /\ result' = "none"
    /\ requests' = <<>>
    /\ waits' = 0
    /\ diag' = <<>>
    /\ UNCHANGED <<token_list, startDisk, run, exc, pureVars>>

\* The program is started again on the same token list and directory
\* (lines 12-17 and 107-109).
Rerun ==
    /\ pc \in {"done", "crashed", "killed"}
    /\ run < MaxRuns
    /\ run' = run + 1
    /\ startDisk' = disk
    /\ callDisk' = disk
    /\ pc' = "loop"
    /\ idx' = 0
    /\ downloaded' = 0
    /\ skipped' = 0
    /\ failed' = 0
    /\ pauses' = 0
    /\ url' = <<>>
    /\ filename' = <<>>
    /\ filepath' = <<>>
    /\ i' = 0
    /\ response' = NoResponse
    /\ result' = "none"
    /\ requests' = <<>>
    /\ waits' = 0
    /\ diag' = <<>>
    /\ exc' = "none"
    /\ UNCHANGED <<token_list, disk, pureVars>>

\* The program has been started: the token list is read, the directory
\* exists, main is at the top of its loop.
Init ==
    /\ token_list \in TokenLists
    /\ disk \in InitialDisks
    /\ startDisk = disk
    /\ callDisk = disk
    /\ run = 1
    /\ pc = "loop"
    /\ idx = 0
    /\ downloaded = 0
    /\ skipped = 0
    /\ failed = 0
    /\ pauses = 0
    /\ url = <<>>
    /\ filename = <<>>
    /\ filepath = <<>>
    /\ i = 0
    /\ response = NoResponse
    /\ result = "none"
    /\ requests = <<>>
    /\ waits = 0
    /\ diag = <<>>
    /\ exc = "none"
    /\ arg = <<>>
    /\ ret = <<>>
    /\ stage = "unused"

\* The steps the running program takes by itself
ProgramStep ==
    \/ CallDownload
    \/ Attempt
    \/ OpenFile
    \/ ReadWrite
    \/ Tally
    \/ SkipNoUrl
    \/ Summary

Next == ProgramStep \/ Rerun

Spec == Init /\ [][Next]_vars

\* The program is sequential and every call in it returns (urlopen has a
\* timeout of 30 s, the sleeps are finite): a step that can be taken is taken.
FairSpec == Spec /\ WF_vars(ProgramStep)

\* The program in an environment that may terminate it at any point
NextTerm == Next \/ Terminate

SpecTerm == Init /\ [][NextTerm]_vars

----------------------------------------------------------------------------
(* Claims                                                                   *)
(*                                                                          *)
(* An attempt succeeds when its response has status 200 and lines 75-78     *)
(* complete; it fails otherwise: a response with another status, an         *)
(* HTTPError, a URLError, or any other exception, that of open() or of      *)
(* response.read() after a status of 200 included.                          *)

\* download_file has returned (main may have gone on since).
Returned == pc \in {"ret", "loop", "done"}

\* C1: a download_file call that finds its destination on disk returns True
\* without a request and leaves the directory as it was; hence a run of the
\* program makes no request for a file that was there when the run started,
\* such as one an earlier run fetched.
C1_IdempotentFetch ==
    /\ filepath \in DOMAIN callDisk =>
          /\ result = "True"
          /\ requests = <<>>
          /\ disk = callDisk
          /\ Returned
    /\ requests # <<>> => filepath \notin DOMAIN startDisk

\* A second run has called download_file for a file the first run had fetched.
C1_Witness ==
    /\ run = 2
    /\ pc = "ret"
    /\ filepath \in DOMAIN startDisk
    /\ startDisk[filepath].kind = "body"
    /\ requests = <<>>

\* C2 as claimed: once the k-th attempt of a call has returned status 200,
\* the call goes on to return True with the k requests it has made and the
\* body of that response in the destination.
C2_RetrySuccess_AsClaimed ==
    [][(response.status = 200 /\ result = "none") =>
          \/ pc = "open" /\ pc' = "read" /\ requests' = requests
          \/ /\ pc = "read"
             /\ result' = "True"
             /\ requests' = requests
             /\ filepath \in DOMAIN disk'
             /\ disk'[filepath] = response.body]_vars

\* C2, amended: a call whose destination did not exist and whose k-th
\* attempt is the first to get status 200 and to have its body read and
\* written without error (the k - 1 before it having failed) returns True
\* after exactly k requests, k in 1..4, and the directory differs from the
\* one at the call in exactly the destination, which holds the body of the
\* k-th response.
C2_RetrySuccess ==
    (result = "True" /\ requests # <<>>) =>
        /\ Len(requests) \in 1..4
        /\ Returned
        /\ response = [status |-> 200, body |-> Body(url, Len(requests))]
        /\ filepath \notin DOMAIN callDisk
        /\ DOMAIN disk = DOMAIN callDisk \cup {filepath}
        /\ disk[filepath] = Body(url, Len(requests))
        /\ \A p \in DOMAIN callDisk : disk[p] = callDisk[p]

\* Three attempts failed, the first of them after it had created the file, and
\* the fourth succeeded.
C2_Witness ==
    /\ pc = "ret"
    /\ result = "True"
    /\ Len(requests) = 4
    /\ diag = <<"unexpected">>

ExpectedAgents ==
    << "Mozilla/5.0 (Macintosh; Intel Mac OS X 10_15_7) AppleWebKit/537.36 (KHTML, like Gecko) Chrome/120.0.0.0 Safari/537.36",
       "Mozilla/5.0 (Windows NT 10.0; Win64; x64) AppleWebKit/537.36 (KHTML, like Gecko) Chrome/120.0.0.0 Safari/537.36",
       "curl/7.68.0",
       "wget/1.21.3" >>

\* C3 as claimed: at most 4 requests, the k-th with the k-th entry of the
\* User-Agent list; an attempt that returned status 200 is followed by no
\* attempt and not by the return of False.
C3_BoundedOrderedRetry_AsClaimed ==
    /\ [](/\ Len(requests) <= 4
          /\ \A k \in 1..Len(requests) : requests[k] = ExpectedAgents[k])
    /\ [][response.status = 200 => (pc' # "attempt" /\ result' # "False")]_vars

\* C3, amended: a call makes at most 4 requests, the k-th with the k-th entry
\* of the User-Agent list; no attempt follows one that got status 200 and had
\* its body read and written; and the call returns False exactly when it has
\* made all 4 requests and none of them got that far (so the destination
\* holds no body of this call).
C3_BoundedOrderedRetry ==
    /\ Len(requests) <= 4
    /\ \A k \in 1..Len(requests) : requests[k] = ExpectedAgents[k]
    /\ result = "True" => Returned
    /\ result = "False" =>
          /\ Len(requests) = 4
          /\ Returned
          /\ ~(filepath \in DOMAIN disk /\ disk[filepath].kind = "body")
    /\ (Returned /\ Len(requests) = 4 /\ result # "True") => result = "False"
    /\ (Returned /\ requests # <<>> /\ Len(requests) < 4) => result = "True"

\* All four attempts failed and download_file has returned False.
C3_Witness ==
    /\ pc = "ret"
    /\ result = "False"
    /\ Len(requests) = 4

\* C4: when download_file returns False for a destination that did not exist
\* when it was called, the destination does not exist afterwards.
C4_NoPartialFileOnFailure ==
    (result = "False" /\ filepath \notin DOMAIN callDisk) =>
        filepath \notin DOMAIN disk

\* The record the loop is at has no logoUrl, or an empty one.
AtRecordWithoutUrl ==
    /\ pc = "loop"
    /\ idx < Len(token_list)
    /\ (~token_list[idx + 1].hasUrl \/ token_list[idx + 1].logoUrl = <<>>)

\* C5: the step main takes at a record without a logo URL adds 1 to skipped,
\* leaves downloaded and failed alone, does not call download_file, makes no
\* request and leaves the directory alone.
C5_MissingUrlIsSkip ==
    [][AtRecordWithoutUrl =>
          /\ skipped' = skipped + 1
          /\ downloaded' = downloaded
          /\ failed' = failed
          /\ idx' = idx + 1
          /\ pc' = "loop"
          /\ UNCHANGED <<url, filename, filepath, result, callDisk>>
          /\ requests' = requests
          /\ disk' = disk]_vars

\* The second record of the list had no URL and was skipped after the first
\* had been fetched.
C5_Witness ==
    /\ idx = 2
    /\ skipped = 1
    /\ downloaded = 1
    /\ requests # <<>>
    /\ token_list[2].hasUrl
    /\ token_list[2].logoUrl = <<>>

\* Positions of the list whose record has a URL served by a server of kind b
WithServer(b) ==
    {k \in 1..Len(token_list) :
        /\ token_list[k].hasUrl
        /\ token_list[k].logoUrl # <<>>
        /\ ~get_extension_raises(token_list[k].logoUrl)
        /\ Server(token_list[k].logoUrl) = b}

WithoutUrl ==
    {k \in 1..Len(token_list) :
        ~token_list[k].hasUrl \/ token_list[k].logoUrl = <<>>}

TargetOf(k) ==
    sanitize_filename(token_list[k].symbol)
        \o get_extension_from_url(token_list[k].logoUrl)

\* C6: from an empty directory, for a list with pairwise distinct targets
\* whose URLs each always succeed or always fail, the run ends with
\* downloaded = number of good URLs, skipped = number of records without URL,
\* failed = number of bad URLs, and exactly the targets of the good URLs on
\* disk.
C6_EndToEndTally ==
    ( /\ pc = "done"
      /\ run = 1
      /\ startDisk = EmptyDisk
      /\ WithServer("good") \cup WithServer("bad") \cup WithoutUrl
            = 1..Len(token_list)
      /\ \A j, k \in WithServer("good") \cup WithServer("bad") :
            j # k => TargetOf(j) # TargetOf(k) )
    => /\ downloaded = Cardinality(WithServer("good"))
       /\ skipped = Cardinality(WithoutUrl)
       /\ failed = Cardinality(WithServer("bad"))
       /\ DOMAIN disk = {TargetOf(k) : k \in WithServer("good")}

\* C7: whatever the records and the outcomes of the attempts, no exception
\* ends the run, the run reaches the final summary, and it has then been
\* through every record once.
C7_PerItemFailuresNeverFatal ==
    /\ [](exc = "none" /\ pc # "crashed")
    /\ [](pc = "done" => idx = Len(token_list)
                         /\ downloaded + skipped + failed = Len(token_list))
    /\ <>(pc = "done")

\* C8: the directory changes only in an attempt whose response has status
\* 200; an attempt that does not get that far leaves the directory alone and
\* drives the retry loop: the next attempt, or False after the last.
C8_Only200Writes ==
    [][/\ disk' # disk => (pc \in {"open", "read"} /\ response.status = 200)
       /\ (pc = "attempt" /\ pc' # "open") =>
              /\ disk' = disk
              /\ \/ i < 3 /\ i' = i + 1 /\ pc' = "attempt" /\ result' = "none"
                 \/ i = 3 /\ pc' = "ret" /\ result' = "False"]_vars

\* The first attempt got a response with a status other than 200 and wrote
\* nothing; a later attempt got 200 and has opened the file.
C8_Witness ==
    /\ pc = "read"
    /\ diag = <<"status">>
    /\ response.status = 200
    /\ filepath \in DOMAIN disk

\* The characters [A-Za-z0-9\-_.]
AllowedChars ==
    {"a","b","c","d","e","f","g","h","i","j","k","l","m","n","o","p","q","r",
     "s","t","u","v","w","x","y","z",
     "A","B","C","D","E","F","G","H","I","J","K","L","M","N","O","P","Q","R",
     "S","T","U","V","W","X","Y","Z",
     "0","1","2","3","4","5","6","7","8","9", "-", "_", "."}

\* C9: sanitize_filename returns a string of the length of its input, every
\* character of it allowed: the allowed characters of the input in place, '_'
\* for each of the others; a string of allowed characters comes back
\* unchanged, and so does the result when it is sanitized again.
C9_Sanitizer ==
    /\ stage \in {"san1", "san2"} =>
          /\ Len(ret) = Len(arg)
          /\ \A k \in 1..Len(ret) :
                /\ ret[k] \in AllowedChars
                /\ arg[k] \in AllowedChars => ret[k] = arg[k]
                /\ arg[k] \notin AllowedChars => ret[k] = "_"
          /\ (\A k \in 1..Len(arg) : arg[k] \in AllowedChars) => ret = arg
    /\ stage = "san2" => ret = arg

\* A string with an unsafe character before a safe one has been sanitized.
C9_Witness ==
    /\ stage = "san1"
    /\ Len(arg) = 2
    /\ arg[1] \notin AllowedChars
    /\ arg[2] \in AllowedChars \ {"_"}
    /\ ret = <<"_", arg[2]>>

\* C10: for every URL get_extension_from_url returns: '.png' when the last
\* path segment has no extension or one outside the list (case-insensitive),
\* else the extension as found; the result begins with '.' and its lower
\* case is in the list.
C10_ExtensionResolver ==
    /\ stage # "raised"
    /\ stage = "ext1" =>
          LET found == splitext_ext(urlparse(arg).path)
          IN  /\ ret = IF found = <<>> \/ Lower(found) \notin KnownExtensions
                       THEN PNG ELSE found
              /\ ret[1] = "."
              /\ Lower(ret) \in KnownExtensions

\* download_file is inside its retry loop (lines 62-100).
InRetryLoop == pc \in {"attempt", "open", "read"}

\* C11: within one call, one time.sleep(0.5) lies between two consecutive
\* attempts and nowhere else: before attempt k + 1 begins the call has slept
\* k times; a call that succeeds on attempt k has slept k - 1 times, none of
\* them after the success; a call that exhausts its 4 attempts has slept 3
\* times, none of them after the 4th.
C11_RetryDelayPlacement ==
    /\ InRetryLoop =>
          /\ waits = i
          /\ Len(requests) = IF pc = "attempt" THEN i ELSE i + 1
    /\ requests = <<>> => waits = 0
    /\ (result = "True" /\ requests # <<>>) => waits = Len(requests) - 1
    /\ result = "False" => (Len(requests) = 4 /\ waits = 3)

\* A call has succeeded on its third attempt, after two waits.
C11_Witness ==
    /\ pc = "ret"
    /\ result = "True"
    /\ Len(requests) = 3
    /\ waits = 2

\* C12: a call prints a failure diagnostic only for a failure of its first
\* attempt (the request with the first User-Agent); the failures of
\* attempts 2, 3 and 4 print none, so a call prints at most one.
C12_FirstAttemptOnlyDiagnostics ==
    /\ [](Len(diag) <= 1)
    /\ [][diag' # diag =>
             \/ diag' = <<>>
             \/ /\ InRetryLoop
                /\ i = 0
                /\ Len(requests') = 1
                /\ diag = <<>>
                /\ Len(diag') = 1]_vars
    /\ [][(InRetryLoop /\ Len(requests') >= 2) => diag' = diag]_vars

\* All four attempts of a call failed, the first with HTTP 403, and the only
\* diagnostic is that of the first.
C12_Witness ==
    /\ pc = "ret"
    /\ result = "False"
    /\ Len(requests) = 4
    /\ diag = <<"forbidden">>

\* C13: main sleeps 0.3 once after every record it has finished, whatever
\* the outcome (fetched, failed, skipped for the lack of a URL, found on
\* disk): the number of pauses of a run is the number of records it has
\* finished, and n when the run over n records reaches its summary.
C13_PolitenessDelay ==
    /\ pauses = idx
    /\ pc = "done" => pauses = Len(token_list)

\* A run over two records has ended: one was found on disk (no request),
\* the other had no URL, and the run has paused twice.
C13_Witness ==
    /\ pc = "done"
    /\ Len(token_list) = 2
    /\ downloaded = 1
    /\ skipped = 1
    /\ requests = <<>>
    /\ disk = startDisk
    /\ pauses = 2

\* The list holds two records with distinct symbols, each with a URL, whose
\* target paths are the same, and the directory did not hold that path when
\* the run started.
Collision ==
    /\ Len(token_list) = 2
    /\ WithoutUrl = {}
    /\ \A k \in 1..2 : ~get_extension_raises(token_list[k].logoUrl)
    /\ token_list[1].symbol # token_list[2].symbol
    /\ TargetOf(1) = TargetOf(2)
    /\ TargetOf(1) \notin DOMAIN startDisk

\* C14: when two records with distinct symbols have the same target path
\* and the fetch for the earlier one succeeded, the call for the later one
\* makes no request and returns True, the record is counted as downloaded,
\* and the file holds a body fetched from the URL of the earlier record.
C14_FirstWriteWins ==
    (Collision /\ idx >= 1 /\ failed = 0) =>
        /\ TargetOf(1) \in DOMAIN disk
        /\ disk[TargetOf(1)].kind = "body"
        /\ disk[TargetOf(1)].from = token_list[1].logoUrl
        /\ (idx = 1 /\ pc # "loop") =>
              /\ pc = "ret"
              /\ result = "True"
              /\ requests = <<>>
              /\ disk = callDisk
        /\ idx = 2 =>
              /\ downloaded = 2
              /\ failed = 0
              /\ requests = <<>>

\* Both records of a collision have been processed: the first was fetched,
\* the second found the file and was counted as downloaded.
C14_Witness ==
    /\ Collision
    /\ idx = 2
    /\ downloaded = 2
    /\ requests = <<>>
    /\ disk[TargetOf(1)].from = token_list[1].logoUrl
    /\ token_list[2].logoUrl # token_list[1].logoUrl

\* Every file of directory d is in directory e with the same content.
KeptIn(d, e) ==
    \A p \in DOMAIN d : p \in DOMAIN e /\ e[p] = d[p]

\* C15: no step removes a file from the directory; a file that was there
\* when a download_file call began, the target of the call or not, keeps
\* its content through the call; and so does, through a run and the runs
\* after it, a file that was there when the run started.
C15_AppendOnlyDirectory ==
    /\ [][DOMAIN disk \subseteq DOMAIN disk']_vars
    /\ [](KeptIn(callDisk, disk) /\ KeptIn(startDisk, disk))
    /\ [][KeptIn(startDisk, startDisk')]_vars

\* A second run has added a file to a directory that held files when the
\* run started, among them the target of the current call.
C15_Witness ==
    /\ run = 2
    /\ startDisk # EmptyDisk
    /\ DOMAIN disk # DOMAIN startDisk
    /\ filepath \in DOMAIN startDisk
    /\ result = "True"

\* A file that holds less than the body it was opened for
Incomplete(c) == c.kind \in {"empty", "partial"}

\* C16: a process terminated between open() and the end of the write leaves
\* an incomplete file at the destination; a later run that finds it there
\* takes it for downloaded (True, no request), and leaves it as it is.
C16_InterruptedWriteSticks ==
    /\ [][(pc = "read" /\ pc' = "killed") =>
             /\ filepath \in DOMAIN disk'
             /\ Incomplete(disk'[filepath])]_vars
    /\ [](\A p \in DOMAIN startDisk :
             Incomplete(startDisk[p]) => (p \in DOMAIN disk /\ disk[p] = startDisk[p]))
    /\ []((filepath \in DOMAIN callDisk /\ Incomplete(callDisk[filepath])) =>
             /\ result = "True"
             /\ requests = <<>>
             /\ disk = callDisk
             /\ pc \in {"ret", "loop", "done"})

\* The run after a termination in the middle of a write has called
\* download_file for the file that was cut short, and counted it.
C16_Witness ==
    /\ run = 2
    /\ filepath \in DOMAIN startDisk
    /\ startDisk[filepath].kind = "partial"
    /\ disk = startDisk
    /\ result = "True"
    /\ requests = <<>>
    /\ downloaded >= 1

\* A step adds 1 to counter c and leaves counters d and e alone.
OnlyAdds1(c, d, e) == c' = c + 1 /\ d' = d /\ e' = e

\* C17: whenever main is between two records, and at every other point of
\* the run, downloaded + skipped + failed is the number of records finished;
\* the step that finishes a record adds 1 to exactly one of the three
\* counters, no other step of the run changes them, and none is negative.
C17_CounterPartition ==
    /\ [](/\ downloaded + skipped + failed = idx
          /\ downloaded \in Nat /\ skipped \in Nat /\ failed \in Nat)
    /\ [][run' = run =>
             IF idx' = idx + 1
             THEN \/ OnlyAdds1(downloaded, skipped, failed)
                  \/ OnlyAdds1(skipped, downloaded, failed)
                  \/ OnlyAdds1(failed, downloaded, skipped)
             ELSE UNCHANGED <<idx, downloaded, skipped, failed>>]_vars

\* A run has finished two records, a failed one and a skipped one.
C17_Witness ==
    /\ pc = "loop"
    /\ idx = 2
    /\ failed = 1
    /\ skipped = 1
    /\ downloaded = 0

\* Positions of the list whose record has a non-empty logoUrl
WithUrl == (1..Len(token_list)) \ WithoutUrl

\* Every record with a URL has a target path, and the directory held it
\* when the run started.
AllTargetsPresent ==
    \A k \in WithUrl :
        /\ ~get_extension_raises(token_list[k].logoUrl)
        /\ TargetOf(k) \in DOMAIN startDisk

\* C18: downloaded counts the calls that returned True, requests or not: a
\* run that started with every target file present makes no request and no
\* write, counts no failure, and ends with downloaded equal to the number of
\* records with a non-empty URL.
C18_DownloadedCountsSuccesses ==
    AllTargetsPresent =>
        /\ requests = <<>>
        /\ disk = startDisk
        /\ failed = 0
        /\ pc # "crashed"
        /\ downloaded = Cardinality({k \in WithUrl : k <= idx})
        /\ pc = "done" =>
              /\ downloaded = Cardinality(WithUrl)
              /\ skipped = Cardinality(WithoutUrl)

\* A second run over two records with URLs, whose files the first run had
\* fetched, has ended.
C18_Witness ==
    /\ run = 2
    /\ pc = "done"
    /\ Len(token_list) = 2
    /\ AllTargetsPresent
    /\ \A k \in 1..2 : k \in WithUrl /\ startDisk[TargetOf(k)].kind = "body"
    /\ TargetOf(1) # TargetOf(2)
    /\ downloaded = 2

====
